---- MODULE Spec2Model ----
(***************************************************************************)
(* A model of riff/utils.py: split_paths_by_max_len,                       *)
(* validate_paths_relative_to_repo, parse_ruff_output and                  *)
(* parse_git_changed_lines, each as a state machine that steps through the *)
(* function's loop.  A path is modelled by str(path), a sequence of        *)
(* character codes, so that len(str(path)) and string comparison are       *)
(* computed rather than assumed.                                           *)
(***************************************************************************)
EXTENDS Integers, Sequences, FiniteSets, TLC

VARIABLES
    \* split_paths_by_max_len
    paths, max_length_sum, order, result, current_list, current_length_sum,
    error_path, s_pc,
    \* validate_paths_relative_to_repo
    v_paths, repo_path, cwd, v_rest, v_logged, v_pc,
    \* parse_ruff_output
    ruff_result_raw, raw_violations, violations, ruff_returned, r_pc,
    \* parse_git_changed_lines
    patch_set, g_rest, g_result, g_logged, g_pc,
    \* the filtering stage
    f_violations, f_rest, filtered, f_pc

splitVars == <<paths, max_length_sum, order, result, current_list,
               current_length_sum, error_path, s_pc>>

validateVars == <<v_paths, repo_path, cwd, v_rest, v_logged, v_pc>>

ruffVars == <<ruff_result_raw, raw_violations, violations, ruff_returned, r_pc>>

gitVars == <<patch_set, g_rest, g_result, g_logged, g_pc>>

filterVars == <<f_violations, f_rest, filtered, f_pc>>

notSplitVars == <<validateVars, ruffVars, gitVars, filterVars>>

notValidateVars == <<splitVars, ruffVars, gitVars, filterVars>>

notRuffVars == <<splitVars, validateVars, gitVars, filterVars>>

notGitVars == <<splitVars, validateVars, ruffVars, filterVars>>

notFilterVars == <<splitVars, validateVars, ruffVars, gitVars>>

vars == <<splitVars, validateVars, ruffVars, gitVars, filterVars>>

(***************************************************************************)
(* Bounds of the model.                                                    *)
(***************************************************************************)
\* longest input list of split_paths_by_max_len
MaxPaths == 3
\* largest max_length_sum tried with the pool of short paths
MaxSum == 5
\* longest input list of validate_paths_relative_to_repo
MaxValidated == 3
\* longest payload of parse_ruff_output, in tokens
MaxTokens == 5
\* most lines in a diff, over all its files and hunks
MaxDiffLines == 3
\* longest tuple of violations handed to the filtering stage
MaxViolations == 2

(***************************************************************************)
(* A function that is not called keeps its variables at these values.      *)
(***************************************************************************)
SplitIdle ==
    /\ paths = <<>> /\ max_length_sum = 0 /\ order = <<>> /\ result = <<>>
    /\ current_list = <<>> /\ current_length_sum = 0 /\ error_path = <<>>
    /\ s_pc = "idle"

ValidateIdle ==
    /\ v_paths = <<>> /\ repo_path = <<>> /\ cwd = <<>> /\ v_rest = <<>>
    /\ v_logged = <<>> /\ v_pc = "idle"

RuffIdle ==
    /\ ruff_result_raw = <<>> /\ raw_violations = <<>> /\ violations = <<>>
    /\ ruff_returned = <<>> /\ r_pc = "idle"

GitIdle ==
    /\ patch_set = <<>> /\ g_rest = <<>> /\ g_result = <<>> /\ g_logged = "nothing"
    /\ g_pc = "idle"

FilterIdle ==
    /\ f_violations = <<>> /\ f_rest = <<>> /\ filtered = <<>> /\ f_pc = "idle"

(***************************************************************************)
(* Strings.                                                                *)
(***************************************************************************)
\* "a", "b", "ab", "ba", "abc"
PathPool == { <<97>>, <<98>>, <<97, 98>>, <<98, 97>>, <<97, 98, 99>> }

\* "a.py", "bb.py", "ccccc.py"
A_py == <<97, 46, 112, 121>>
Bb_py == <<98, 98, 46, 112, 121>>
Ccccc_py == <<99, 99, 99, 99, 99, 46, 112, 121>>

\* The sequences over S of length 0..n.
SeqUpTo(S, n) == UNION { [1..k -> S] : k \in 0..n }

\* The elements of a sequence.
Range(s) == { s[k] : k \in 1..Len(s) }

\* Python's str.__lt__: lexicographic comparison by character code.
RECURSIVE StrLess(_, _)
StrLess(s, t) ==
    IF t = <<>> THEN FALSE
    ELSE IF s = <<>> THEN TRUE
    ELSE IF s[1] # t[1] THEN s[1] < t[1]
    ELSE StrLess(Tail(s), Tail(t))

\* sum(len(str(p)) for p in batch)
RECURSIVE LengthSum(_)
LengthSum(batch) ==
    IF batch = <<>> THEN 0 ELSE Len(Head(batch)) + LengthSum(Tail(batch))

\* The concatenation of a sequence of batches.
RECURSIVE Flatten(_)
Flatten(batches) ==
    IF batches = <<>> THEN <<>> ELSE Head(batches) \o Flatten(Tail(batches))

(***************************************************************************)
(* split_paths_by_max_len                                                  *)
(***************************************************************************)
\* len(str(path))
PathLength(path) == Len(path)

\* The orders in which iterating set(paths) can yield its elements: a set
\* has no order of its own, the hash seed of the process and the insertion
\* history decide it.
SetIterationsNoDedup(ps) == { ps }
SetIterations(ps) ==
    LET S == Range(ps)
    IN  { f \in [1..Cardinality(S) -> S] : \A x \in S : \E k \in DOMAIN f : f[k] = x }

\* One insertion of sorted(): x goes behind every element whose key is not
\* larger (the sort is stable).
RECURSIVE InsertByLen(_, _)
InsertByLen(sorted, x) ==
    IF sorted = <<>> THEN <<x>>
    ELSE IF PathLength(Head(sorted)) <= PathLength(x)
         THEN <<Head(sorted)>> \o InsertByLen(Tail(sorted), x)
         ELSE <<x>> \o sorted

\* sorted(iterable, key=lambda x: len(str(x)))
RECURSIVE SortedByLen(_)
SortedByLen(s) ==
    IF s = <<>> THEN <<>>
    ELSE InsertByLen(SortedByLen(SubSeq(s, 1, Len(s) - 1)), s[Len(s)])

\* if path_length >= max_length_sum
TooLongStrict(path_length, max) == path_length > max
TooLong(path_length, max) == path_length >= max

\* if current_length_sum + path_length <= max_length_sum
FitsIgnoringLength(sum, path_length, max) == sum <= max
FitsStrictly(sum, path_length, max) == sum + path_length < max
Fits(sum, path_length, max) == sum + path_length <= max

SplitInputs ==
    { <<ps, m>> : ps \in SeqUpTo(PathPool, MaxPaths), m \in -1..MaxSum }
    \cup { << <<A_py, Bb_py, Ccccc_py>>, 6 >>, << <<Bb_py, A_py>>, 6 >> }

SplitInit ==
    /\ \E inp \in SplitInputs : paths = inp[1] /\ max_length_sum = inp[2]
    /\ order = <<>>
    /\ result = <<>>
    /\ current_list = <<>>
    /\ current_length_sum = 0
    /\ error_path = <<>>
    /\ s_pc = "call"

\* The head of the for statement: set(paths) is built and sorted once.
SplitSort ==
    /\ s_pc = "call"
    /\ \E it \in SetIterations(paths) : order' = SortedByLen(it)
    /\ s_pc' = "loop"
    /\ UNCHANGED <<paths, max_length_sum, result, current_list,
                   current_length_sum, error_path>>
    /\ UNCHANGED notSplitVars

\* raise ValueError(f"Path is longer than {max_length_sum}: {path}")
SplitRaise ==
    /\ s_pc = "loop"
    /\ order # <<>>
    /\ TooLong(PathLength(Head(order)), max_length_sum)
    /\ error_path' = Head(order)
    /\ s_pc' = "raised"
    /\ UNCHANGED <<paths, max_length_sum, order, result, current_list,
                   current_length_sum>>
    /\ UNCHANGED notSplitVars

\* current_list.append(path); current_length_sum += path_length
SplitAppend ==
    /\ s_pc = "loop"
    /\ order # <<>>
    /\ ~TooLong(PathLength(Head(order)), max_length_sum)
    /\ Fits(current_length_sum, PathLength(Head(order)), max_length_sum)
    /\ current_list' = Append(current_list, Head(order))
    /\ current_length_sum' = current_length_sum + PathLength(Head(order))
    /\ order' = Tail(order)
    /\ UNCHANGED <<paths, max_length_sum, result, error_path, s_pc>>
    /\ UNCHANGED notSplitVars

\* result.append(current_list); current_list = [path]
SplitClose ==
    /\ s_pc = "loop"
    /\ order # <<>>
    /\ ~TooLong(PathLength(Head(order)), max_length_sum)
    /\ ~Fits(current_length_sum, PathLength(Head(order)), max_length_sum)
    /\ result' = Append(result, current_list)
    /\ current_list' = <<Head(order)>>
    /\ current_length_sum' = PathLength(Head(order))
    /\ order' = Tail(order)
    /\ UNCHANGED <<paths, max_length_sum, error_path, s_pc>>
    /\ UNCHANGED notSplitVars

\* if current_list: result.append(current_list); return result
SplitReturn ==
    /\ s_pc = "loop"
    /\ order = <<>>
    /\ result' = IF current_list # <<>> THEN Append(result, current_list)
                 ELSE result
    /\ s_pc' = "returned"
    /\ UNCHANGED <<paths, max_length_sum, order, current_list,
                   current_length_sum, error_path>>
    /\ UNCHANGED notSplitVars

SplitNext ==
    \/ SplitSort
    \/ SplitRaise
    \/ SplitAppend
    \/ SplitClose
    \/ SplitReturn

InitSplit == ValidateIdle /\ RuffIdle /\ GitIdle /\ FilterIdle /\ SplitInit

SpecSplit == InitSplit /\ [][SplitNext]_vars

(***************************************************************************)
(* Properties of split_paths_by_max_len                                    *)
(***************************************************************************)
\* C1: every closed batch, and the batch being accumulated, has a total
\* path-string length of at most max_length_sum, after every step of the
\* loop and in the returned result.
C1_BatchSumWithinMax ==
    /\ \A k \in 1..Len(result) : LengthSum(result[k]) <= max_length_sum
    /\ current_list # <<>> => LengthSum(current_list) <= max_length_sum
    /\ current_length_sum = LengthSum(current_list)

\* A returned result with two batches, one of them holding two paths whose
\* lengths add up to exactly max_length_sum.
C1_Witness ==
    /\ s_pc = "returned"
    /\ Len(result) >= 2
    /\ \E k \in 1..Len(result) :
          Len(result[k]) >= 2 /\ LengthSum(result[k]) = max_length_sum

\* C2: the concatenation of the returned batches is a permutation of the
\* deduplicated input: every distinct input path exactly once, nothing else.
C2_FlattenedIsPermutation ==
    s_pc = "returned" =>
        /\ Range(Flatten(result)) = Range(paths)
        /\ Len(Flatten(result)) = Cardinality(Range(paths))

\* A returned result of an input list that holds a duplicate and is split
\* into at least two batches.
C2_Witness ==
    /\ s_pc = "returned"
    /\ Len(paths) > Cardinality(Range(paths))
    /\ Len(result) >= 2

\* C3: an input with a path of length >= max_length_sum never returns and
\* ends in the error, which names such a path of the input; an input whose
\* paths are all strictly shorter never raises; the call never gets stuck.
C3_TooLongAlwaysRaises ==
    /\ s_pc = "returned" =>
          \A p \in Range(paths) : PathLength(p) < max_length_sum
    /\ s_pc = "raised" =>
          /\ error_path \in Range(paths)
          /\ PathLength(error_path) >= max_length_sum
    /\ (\A p \in Range(paths) : PathLength(p) < max_length_sum) =>
          s_pc # "raised"
    /\ s_pc \in {"returned", "raised"} \/ ENABLED SplitNext

\* Scenario 3: {a.py, bb.py, ccccc.py} with max_length_sum 6 raises naming
\* ccccc.py, after a batch was already closed.
C3_Witness ==
    /\ s_pc = "raised"
    /\ max_length_sum = 6
    /\ error_path = Ccccc_py
    /\ result # <<>>

\* C4: the result is a function of the input set and max_length_sum alone:
\* whatever order the intermediate set is iterated in, the same batches come
\* out, the paths in them ordered shortest first and, for equal lengths, by
\* comparing the path strings.
C4_DeterministicOrder ==
    s_pc = "returned" =>
        /\ \A it \in SetIterations(paths) : Flatten(result) = SortedByLen(it)
        /\ \A i, j \in 1..Len(Flatten(result)) :
              i < j =>
                 \/ PathLength(Flatten(result)[i]) < PathLength(Flatten(result)[j])
                 \/ /\ PathLength(Flatten(result)[i]) = PathLength(Flatten(result)[j])
                    /\ StrLess(Flatten(result)[i], Flatten(result)[j])

\* C10: a batch is closed only when the next path would not fit, and that
\* path opens the next batch; no returned batch is empty; two paths whose
\* lengths together exceed max_length_sum never share a batch; {a.py, bb.py}
\* with max_length_sum 6 gives [a.py], [bb.py].
C10_GreedyClosing ==
    s_pc = "returned" =>
        /\ \A k \in 1..Len(result) : result[k] # <<>>
        /\ \A k \in 1..(Len(result) - 1) :
              LengthSum(result[k]) + PathLength(result[k + 1][1]) > max_length_sum
        /\ \A k \in 1..Len(result) : \A i, j \in 1..Len(result[k]) :
              i # j =>
                 PathLength(result[k][i]) + PathLength(result[k][j]) <= max_length_sum
        /\ (Range(paths) = {A_py, Bb_py} /\ max_length_sum = 6) =>
              result = << <<A_py>>, <<Bb_py>> >>

\* Scenario 4 has returned, in two batches.
C10_Witness ==
    /\ s_pc = "returned"
    /\ Range(paths) = {A_py, Bb_py}
    /\ max_length_sum = 6
    /\ Len(result) = 2

(***************************************************************************)
(* validate_paths_relative_to_repo.  Here a path is its pathlib parts:     *)
(* relative_to compares parts, not characters.                             *)
(***************************************************************************)
RepoRoot == <<"/", "repo">>

\* The paths handed in: relative and inside, absolute and inside, absolute
\* and outside, relative and leaving the repository through "..".
ValidatedPool ==
    { <<"a.py">>, <<"/", "repo", "b.py">>, <<"/", "other", "c.py">>,
      <<"..", "d.py">> }

\* The ways the caller names the repository, all of them the same directory.
RepoPathPool == { RepoRoot, <<>>, <<"/", "repo", "sub", "..">> }

\* Path.absolute(): the working directory is put in front of a relative
\* path; nothing is normalised.
Absolute(path, dir) ==
    IF path # <<>> /\ path[1] = "/" THEN path ELSE dir \o path

\* The ".." parts of an absolute path resolved (the modelled file system
\* has no symbolic links).
RECURSIVE Collapse(_)
Collapse(path) ==
    IF path = <<>> THEN <<>>
    ELSE LET front == Collapse(SubSeq(path, 1, Len(path) - 1))
             last == path[Len(path)]
         IN  IF last # ".." THEN Append(front, last)
             ELSE IF Len(front) > 1 THEN SubSeq(front, 1, Len(front) - 1)
             ELSE front

\* Path.resolve()
Resolve(path, dir) == Collapse(Absolute(path, dir))

\* path.relative_to(other) succeeds iff other's parts are a prefix of path's.
IsRelativeTo(path, other) ==
    /\ Len(other) <= Len(path)
    /\ SubSeq(path, 1, Len(other)) = other

ValidateInit ==
    /\ v_paths \in SeqUpTo(ValidatedPool, MaxValidated)
    /\ repo_path \in RepoPathPool
    /\ cwd = RepoRoot
    /\ v_rest = <<>>
    /\ v_logged = <<>>
    /\ v_pc = "call"

\* repo_path = repo_path.resolve()
ValidateResolve ==
    /\ v_pc = "call"
    /\ repo_path' = Resolve(repo_path, cwd)
    /\ v_rest' = v_paths
    /\ v_pc' = "loop"
    /\ UNCHANGED <<v_paths, cwd, v_logged>>
    /\ UNCHANGED notValidateVars

\* path.absolute().relative_to(repo_path) returns
ValidateInside ==
    /\ v_pc = "loop"
    /\ v_rest # <<>>
    /\ IsRelativeTo(Absolute(Head(v_rest), cwd), repo_path)
    /\ v_rest' = Tail(v_rest)
    /\ UNCHANGED <<v_paths, repo_path, cwd, v_logged, v_pc>>
    /\ UNCHANGED notValidateVars

\* relative_to raises ValueError; logger.catch logs it and does not reraise
ValidateCaught ==
    /\ v_pc = "loop"
    /\ v_rest # <<>>
    /\ ~IsRelativeTo(Absolute(Head(v_rest), cwd), repo_path)
    /\ v_logged' = Append(v_logged, Head(v_rest))
    /\ v_rest' = Tail(v_rest)
    /\ UNCHANGED <<v_paths, repo_path, cwd, v_pc>>
    /\ UNCHANGED notValidateVars

\* The loop is over: the function returns None, and the list the caller
\* passed is the list the caller still holds.
ValidateReturn ==
    /\ v_pc = "loop"
    /\ v_rest = <<>>
    /\ v_pc' = "returned"
    /\ UNCHANGED <<v_paths, repo_path, cwd, v_rest, v_logged>>
    /\ UNCHANGED notValidateVars

ValidateNext ==
    \/ ValidateResolve
    \/ ValidateInside
    \/ ValidateCaught
    \/ ValidateReturn

InitValidate == SplitIdle /\ RuffIdle /\ GitIdle /\ FilterIdle /\ ValidateInit

SpecValidate == InitValidate /\ [][ValidateNext]_vars

(***************************************************************************)
(* Properties of validate_paths_relative_to_repo                           *)
(***************************************************************************)
\* C8: the call does not raise, every path outside the repository is
\* logged, every path after it is still checked, and the paths the run goes
\* on to process are exactly the paths inside the repository: the offending
\* ones are skipped, the others kept.
C8_OffendingPathSkipped ==
    /\ v_pc # "raised"
    /\ v_pc \in {"returned"} \/ ENABLED ValidateNext
    /\ v_pc = "returned" =>
          /\ v_logged = SelectSeq(v_paths,
                LAMBDA p : ~IsRelativeTo(Resolve(p, cwd), RepoRoot))
          /\ \A p \in Range(v_paths) : IsRelativeTo(Resolve(p, cwd), RepoRoot)

(***************************************************************************)
(* parse_ruff_output.  The payload is a sequence of JSON tokens; an object *)
(* is one token that carries its fields.                                   *)
(***************************************************************************)
B_py == <<98, 46, 112, 121>>

LBracket == [kind |-> "[", value |-> [none |-> 0]]
RBracket == [kind |-> "]", value |-> [none |-> 0]]
Comma == [kind |-> ",", value |-> [none |-> 0]]
Object(fields) == [kind |-> "object", value |-> fields]

\* Two complete records and one without its line number.
RecordA == [filename |-> A_py, row |-> 10, code |-> "E501", message |-> "line too long"]
RecordB == [filename |-> B_py, row |-> 5, code |-> "F401", message |-> "unused import"]
RecordNoRow == [filename |-> A_py, code |-> "E501", message |-> "line too long"]

TokenPool ==
    { LBracket, RBracket, Comma, Object(RecordA), Object(RecordB),
      Object(RecordNoRow) }

\* The keys of a JSON object, in the order the payload wrote them.
FieldOrder == <<"filename", "row", "code", "message">>
KeysOf(fields) ==
    LET present == SelectSeq(FieldOrder, LAMBDA f : f \in DOMAIN fields)
    IN  [k \in 1..Len(present) |-> [key |-> present[k]]]

\* json.loads on the token sequence: an array of objects, or one object.
\* ok is FALSE where json.loads raises JSONDecodeError.  items is what
\* iterating the loaded value yields: the elements of a list, the keys of a
\* dict.
JsonLoads(tokens) ==
    LET n == Len(tokens)
        inner == SubSeq(tokens, 2, n - 1)
        isArray ==
            /\ n >= 2
            /\ tokens[1].kind = "["
            /\ tokens[n].kind = "]"
            /\ \/ inner = <<>>
               \/ /\ Len(inner) % 2 = 1
                  /\ \A k \in 1..Len(inner) :
                        inner[k].kind = (IF k % 2 = 1 THEN "object" ELSE ",")
        isObject == n = 1 /\ tokens[1].kind = "object"
    IN  IF isArray
        THEN [ok |-> TRUE, type |-> "list",
              items |-> [k \in 1..((Len(inner) + 1) \div 2) |-> inner[2 * k - 1].value]]
        ELSE IF isObject
        THEN [ok |-> TRUE, type |-> "dict", items |-> KeysOf(tokens[1].value)]
        ELSE [ok |-> FALSE, type |-> "none", items |-> <<>>]

\* Violation.parse: the fields a record must have, and the Violation made
\* of them.
RequiredFields == {"filename", "row", "code", "message"}
ViolationParseOk(raw) == RequiredFields \subseteq DOMAIN raw
ViolationParse(raw) ==
    [path |-> raw.filename, line_start |-> raw.row, error_code |-> raw.code,
     message |-> raw.message]

RuffInit ==
    /\ ruff_result_raw \in SeqUpTo(TokenPool, MaxTokens)
    /\ raw_violations = <<>>
    /\ violations = <<>>
    /\ ruff_returned = <<>>
    /\ r_pc = "call"

\* raw_violations = json.loads(ruff_result_raw)
RuffLoads ==
    /\ r_pc = "call"
    /\ JsonLoads(ruff_result_raw).ok
    /\ raw_violations' = JsonLoads(ruff_result_raw).items
    /\ r_pc' = "map"
    /\ UNCHANGED <<ruff_result_raw, violations, ruff_returned>>
    /\ UNCHANGED notRuffVars

\* json.JSONDecodeError, logged and reraised
RuffLoadsRaise ==
    /\ r_pc = "call"
    /\ ~JsonLoads(ruff_result_raw).ok
    /\ r_pc' = "raised"
    /\ UNCHANGED <<ruff_result_raw, raw_violations, violations, ruff_returned>>
    /\ UNCHANGED notRuffVars

\* One element of tuple(map(Violation.parse, raw_violations)).
RuffSkipRecord ==
    /\ r_pc = "map"
    /\ raw_violations # <<>>
    /\ ~ViolationParseOk(Head(raw_violations))
    /\ raw_violations' = Tail(raw_violations)
    /\ UNCHANGED <<ruff_result_raw, violations, ruff_returned, r_pc>>
    /\ UNCHANGED notRuffVars

RuffConvert ==
    /\ r_pc = "map"
    /\ raw_violations # <<>>
    /\ ViolationParseOk(Head(raw_violations))
    /\ violations' = Append(violations, ViolationParse(Head(raw_violations)))
    /\ raw_violations' = Tail(raw_violations)
    /\ UNCHANGED <<ruff_result_raw, ruff_returned, r_pc>>
    /\ UNCHANGED notRuffVars

\* Violation.parse raises: the exception leaves map, tuple and the function.
RuffConvertRaise ==
    /\ r_pc = "map"
    /\ raw_violations # <<>>
    /\ ~ViolationParseOk(Head(raw_violations))
    /\ r_pc' = "raised"
    /\ UNCHANGED <<ruff_result_raw, raw_violations, violations, ruff_returned>>
    /\ UNCHANGED notRuffVars

\* return violations
RuffReturn ==
    /\ r_pc = "map"
    /\ raw_violations = <<>>
    /\ ruff_returned' = violations
    /\ r_pc' = "returned"
    /\ UNCHANGED <<ruff_result_raw, raw_violations, violations>>
    /\ UNCHANGED notRuffVars

RuffNext ==
    \/ RuffLoads
    \/ RuffLoadsRaise
    \/ RuffConvert
    \/ RuffConvertRaise
    \/ RuffReturn

InitRuff == SplitIdle /\ ValidateIdle /\ GitIdle /\ FilterIdle /\ RuffInit

SpecRuff == InitRuff /\ [][RuffNext]_vars

(***************************************************************************)
(* Properties of parse_ruff_output                                         *)
(***************************************************************************)
\* The records of a payload that is an array of objects, read off the
\* tokens: the objects at the even positions.
PayloadRecords(tokens) ==
    [k \in 1..((Len(tokens) - 1) \div 2) |-> tokens[2 * k].value]

\* The payload is an array of objects: "[", objects separated by commas, "]".
IsRecordArray(tokens) ==
    /\ Len(tokens) >= 2
    /\ tokens[1] = LBracket
    /\ tokens[Len(tokens)] = RBracket
    /\ \A k \in 2..(Len(tokens) - 1) :
          IF k % 2 = 0 THEN tokens[k].kind = "object" ELSE tokens[k] = Comma
    /\ Len(tokens) > 2 => tokens[Len(tokens) - 1].kind = "object"

\* C9: a payload of k records that all convert gives exactly k violations,
\* the i-th the conversion of the i-th record; a payload that is not valid,
\* or that holds one record that does not convert, makes the call fail with
\* nothing returned, whatever was converted before.
C9_AllOrNothing ==
    LET recs == PayloadRecords(ruff_result_raw)
        good == /\ IsRecordArray(ruff_result_raw)
                /\ \A k \in 1..Len(recs) : RequiredFields \subseteq DOMAIN recs[k]
    IN  /\ r_pc = "returned" =>
              /\ good
              /\ Len(ruff_returned) = Len(recs)
              /\ \A k \in 1..Len(recs) : ruff_returned[k] = ViolationParse(recs[k])
        /\ r_pc = "raised" => ~good /\ ruff_returned = <<>>
        /\ r_pc \in {"returned", "raised"} \/ ENABLED RuffNext

\* Two records returned in the order of the payload, RecordB before RecordA:
\* not sorted by path or line.
C9_Witness ==
    /\ r_pc = "returned"
    /\ Len(ruff_returned) = 2
    /\ ruff_returned[1].path = B_py
    /\ ruff_returned[2].path = A_py

(***************************************************************************)
(* parse_git_changed_lines.  patch_set is PatchSet(repo.git.diff(...)): a  *)
(* sequence of patched files, each a path and a sequence of hunks, each    *)
(* hunk the first line number it covers in the target file and its lines.  *)
(***************************************************************************)
\* The characters str.strip() removes (ASCII).
Whitespace == {9, 10, 11, 12, 13, 28, 29, 30, 31, 32}

\* str.strip()
RECURSIVE LStrip(_)
LStrip(str) ==
    IF str # <<>> /\ Head(str) \in Whitespace THEN LStrip(Tail(str)) ELSE str

RECURSIVE RStrip(_)
RStrip(str) ==
    IF str # <<>> /\ str[Len(str)] \in Whitespace
    THEN RStrip(SubSeq(str, 1, Len(str) - 1))
    ELSE str

Strip(str) == RStrip(LStrip(str))

\* "x\n" added, " \t\n" added, "x\n" removed, "x\n" as context
LinePool ==
    { [line_type |-> "+", value |-> <<120, 10>>],
      [line_type |-> "+", value |-> <<32, 9, 10>>],
      [line_type |-> "-", value |-> <<120, 10>>],
      [line_type |-> " ", value |-> <<120, 10>>] }

\* Where a line of a diff stands: in the hunk of the line before it, at the
\* head of a new hunk of the same file, or at the head of a new file.
Breaks == {"same", "hunk", "file"}

\* The path of the k-th file of a diff: "a.py", "b.py", ...  (git diff lists
\* a file once, so the paths of a diff are distinct.)
FilePath(k) == <<96 + k, 46, 112, 121>>

\* The lines of a hunk that exist in the target file.
TargetLength(hunk) ==
    Cardinality({ l \in 1..Len(hunk.lines) : hunk.lines[l].line_type # "-" })

\* One more line put at the end of a diff.  A new hunk starts two
\* unchanged lines behind the hunk before it, the first hunk of a file at
\* line 1.
AddLine(ps, line, break) ==
    IF break = "file" \/ ps = <<>>
    THEN Append(ps, [path |-> FilePath(Len(ps) + 1),
                     hunks |-> << [target_start |-> 1, lines |-> <<line>>] >>])
    ELSE LET file == ps[Len(ps)]
             hunk == file.hunks[Len(file.hunks)]
         IN  IF break = "hunk"
             THEN [ps EXCEPT ![Len(ps)].hunks =
                      Append(@, [target_start |->
                                    hunk.target_start + TargetLength(hunk) + 2,
                                 lines |-> <<line>>])]
             ELSE [ps EXCEPT ![Len(ps)].hunks[Len(file.hunks)].lines =
                      Append(@, line)]

RECURSIVE BuildPatchSet(_)
BuildPatchSet(flat) ==
    IF flat = <<>> THEN <<>>
    ELSE AddLine(BuildPatchSet(SubSeq(flat, 1, Len(flat) - 1)),
                 flat[Len(flat)][1], flat[Len(flat)][2])

\* Scenario 1: a.py gets lines 10, 11 and 12, line 11 blank.
ScenarioPatchSet ==
    << [path |-> A_py,
        hunks |-> << [target_start |-> 10,
                      lines |-> << [line_type |-> "+", value |-> <<120, 10>>],
                                   [line_type |-> "+", value |-> <<10>>],
                                   [line_type |-> "+", value |-> <<120, 10>>] >>] >>] >>

PatchSets ==
    { BuildPatchSet(flat) :
        flat \in { f \in SeqUpTo(LinePool \X Breaks, MaxDiffLines) :
                      f # <<>> => f[1][2] = "file" } }
    \cup { ScenarioPatchSet }

\* line.target_line_no: unidiff numbers the added and the context lines of
\* a hunk from the hunk's target start; a removed line has None (here 0).
TargetLineNo(hunk, l) ==
    IF hunk.lines[l].line_type = "-" THEN 0
    ELSE hunk.target_start
         + Cardinality({ k \in 1..(l - 1) : hunk.lines[k].line_type # "-" })

\* line.is_added
IsNotRemoved(line) == line.line_type # "-"
IsAdded(line) == line.line_type = "+"

\* line.value.strip(), as a condition
NonEmptyValue(line) == line.value # <<>>
NonBlankValue(line) == Strip(line.value) # <<>>

\* parse_modified_lines(patched_file)
ParseModifiedLines(patched_file) ==
    { TargetLineNo(patched_file.hunks[h], l) :
        <<h, l>> \in
            { hl \in UNION { {h} \X (1..Len(patched_file.hunks[h].lines)) :
                                h \in 1..Len(patched_file.hunks) } :
                 /\ IsAdded(patched_file.hunks[hl[1]].lines[hl[2]])
                 /\ NonBlankValue(patched_file.hunks[hl[1]].lines[hl[2]]) } }

\* A dict with one more key, or a key's value replaced.
DictSet(dict, key, value) ==
    [k \in (DOMAIN dict) \cup {key} |-> IF k = key THEN value ELSE dict[k]]

GitInit ==
    /\ patch_set \in PatchSets
    /\ g_rest = <<>>
    /\ g_result = <<>>
    /\ g_logged = "nothing"
    /\ g_pc = "call"

\* repo.git.diff(...) is parsed into the PatchSet the comprehension walks.
GitDiff ==
    /\ g_pc = "call"
    /\ g_rest' = patch_set
    /\ g_pc' = "files"
    /\ UNCHANGED <<patch_set, g_result, g_logged>>
    /\ UNCHANGED notGitVars

\* Path(patched_file.path): parse_modified_lines(patched_file)
GitIndexFile ==
    /\ g_pc = "files"
    /\ g_rest # <<>>
    /\ g_result' = DictSet(g_result, Head(g_rest).path,
                           ParseModifiedLines(Head(g_rest)))
    /\ g_rest' = Tail(g_rest)
    /\ UNCHANGED <<patch_set, g_logged, g_pc>>
    /\ UNCHANGED notGitVars

\* if result: logger.debug(...); return result
GitReturnModified ==
    /\ g_pc = "files"
    /\ g_rest = <<>>
    /\ DOMAIN g_result # {}
    /\ g_logged' = "modified lines"
    /\ g_pc' = "returned"
    /\ UNCHANGED <<patch_set, g_rest, g_result>>
    /\ UNCHANGED notGitVars

\* else: logger.error("could not find any git-modified lines ..."); return result
GitReturnNothing ==
    /\ g_pc = "files"
    /\ g_rest = <<>>
    /\ DOMAIN g_result = {}
    /\ g_logged' = "could not find any git-modified lines"
    /\ g_pc' = "returned"
    /\ UNCHANGED <<patch_set, g_rest, g_result>>
    /\ UNCHANGED notGitVars

GitNext ==
    \/ GitDiff
    \/ GitIndexFile
    \/ GitReturnModified
    \/ GitReturnNothing

InitGit == SplitIdle /\ ValidateIdle /\ RuffIdle /\ FilterIdle /\ GitInit

SpecGit == InitGit /\ [][GitNext]_vars

(***************************************************************************)
(* Properties of parse_git_changed_lines                                   *)
(***************************************************************************)
\* The places <<h, l>> of the lines of a patched file.
LinePlaces(file) ==
    UNION { {h} \X (1..Len(file.hunks[h].lines)) : h \in 1..Len(file.hunks) }

\* The line is an addition whose content has a character that is not
\* whitespace.
IsQualifying(line) ==
    /\ line.line_type = "+"
    /\ \E c \in 1..Len(line.value) : line.value[c] \notin Whitespace

\* C5: for every file of the diff that has its index entry, a number is in
\* the entry iff some line of the file is an addition, has that target line
\* number and is not blank after trimming; the number of a context line, of
\* a removed line or of a whitespace-only addition is never in it.  Once
\* the call has returned every file of the diff has its entry.
C5_IndexIsAddedNonBlank ==
    /\ \A file \in Range(patch_set) :
          file.path \in DOMAIN g_result =>
             /\ g_result[file.path] =
                   { TargetLineNo(file.hunks[p[1]], p[2]) :
                       p \in { q \in LinePlaces(file) :
                                  IsQualifying(file.hunks[q[1]].lines[q[2]]) } }
             /\ \A p \in LinePlaces(file) :
                   ~IsQualifying(file.hunks[p[1]].lines[p[2]]) =>
                      TargetLineNo(file.hunks[p[1]], p[2]) \notin g_result[file.path]
    /\ g_pc = "returned" =>
          DOMAIN g_result = { file.path : file \in Range(patch_set) }

\* A returned index of a file that has a qualifying addition, a blank
\* addition and a line that is not an addition.
C5_Witness ==
    /\ g_pc = "returned"
    /\ \E file \in Range(patch_set) :
          /\ g_result[file.path] # {}
          /\ \E p \in LinePlaces(file) :
                /\ file.hunks[p[1]].lines[p[2]].line_type = "+"
                /\ ~IsQualifying(file.hunks[p[1]].lines[p[2]])
          /\ \E p \in LinePlaces(file) :
                file.hunks[p[1]].lines[p[2]].line_type # "+"

\* C6: no key of the returned mapping maps to the empty set: a file without
\* a qualifying line is absent from the mapping.
C6_NoEmptyEntry ==
    g_pc = "returned" => \A path \in DOMAIN g_result : g_result[path] # {}

(***************************************************************************)
(* The filtering stage: the violations of parse_ruff_output, each kept iff *)
(* the mapping of parse_git_changed_lines has its path and, under it, its  *)
(* line.                                                                   *)
(***************************************************************************)
ViolationAt(path, line) ==
    [path |-> path, line_start |-> line, error_code |-> "E501",
     message |-> "line too long"]

ViolationPool == { ViolationAt(A_py, 1), ViolationAt(A_py, 2), ViolationAt(B_py, 1) }

\* Scenario 1: a.py:10, a.py:11, a.py:12, b.py:5
ScenarioViolations ==
    << ViolationAt(A_py, 10), ViolationAt(A_py, 11), ViolationAt(A_py, 12),
       ViolationAt(B_py, 5) >>

\* The violation is on a line the diff index holds.
IsOnChangedLine(violation, index) ==
    /\ violation.path \in DOMAIN index
    /\ violation.line_start \in index[violation.path]

FilterInit ==
    /\ f_violations \in SeqUpTo(ViolationPool, MaxViolations) \cup {ScenarioViolations}
    /\ f_rest = <<>>
    /\ filtered = <<>>
    /\ f_pc = "wait"

\* The orchestrator has the mapping and starts on the violations.
FilterStart ==
    /\ f_pc = "wait"
    /\ g_pc = "returned"
    /\ f_rest' = f_violations
    /\ f_pc' = "loop"
    /\ UNCHANGED <<f_violations, filtered>>
    /\ UNCHANGED notFilterVars

FilterKeep ==
    /\ f_pc = "loop"
    /\ f_rest # <<>>
    /\ IsOnChangedLine(Head(f_rest), g_result)
    /\ filtered' = Append(filtered, Head(f_rest))
    /\ f_rest' = Tail(f_rest)
    /\ UNCHANGED <<f_violations, f_pc>>
    /\ UNCHANGED notFilterVars

FilterDrop ==
    /\ f_pc = "loop"
    /\ f_rest # <<>>
    /\ ~IsOnChangedLine(Head(f_rest), g_result)
    /\ f_rest' = Tail(f_rest)
    /\ UNCHANGED <<f_violations, filtered, f_pc>>
    /\ UNCHANGED notFilterVars

FilterDone ==
    /\ f_pc = "loop"
    /\ f_rest = <<>>
    /\ f_pc' = "done"
    /\ UNCHANGED <<f_violations, f_rest, filtered>>
    /\ UNCHANGED notFilterVars

FilterNext ==
    \/ GitDiff
    \/ GitIndexFile
    \/ GitReturnModified
    \/ GitReturnNothing
    \/ FilterStart
    \/ FilterKeep
    \/ FilterDrop
    \/ FilterDone

InitFilter == SplitIdle /\ ValidateIdle /\ RuffIdle /\ GitInit /\ FilterInit

SpecFilter == InitFilter /\ [][FilterNext]_vars

(***************************************************************************)
(* Properties of the filtering stage                                       *)
(***************************************************************************)
\* The subsequence of s at the positions in keep, in the order of s.
RECURSIVE SubsequenceAt(_, _)
SubsequenceAt(s, keep) ==
    IF s = <<>> THEN <<>>
    ELSE LET front == SubsequenceAt(SubSeq(s, 1, Len(s) - 1), keep)
         IN  IF Len(s) \in keep THEN Append(front, s[Len(s)]) ELSE front

\* C7: the filtered violations are the violations whose path is a key of
\* the mapping and whose line is in that key's set, in their input order; a
\* path that is absent or maps to the empty set keeps nothing; the diff
\* that adds lines 10, 11 (blank) and 12 of a.py, with violations at
\* a.py:10, a.py:11, a.py:12 and b.py:5, leaves a.py:10 and a.py:12.
C7_FilterKeepsChangedLines ==
    f_pc = "done" =>
        /\ filtered =
              SubsequenceAt(f_violations,
                 { k \in 1..Len(f_violations) :
                      /\ f_violations[k].path \in DOMAIN g_result
                      /\ f_violations[k].line_start \in g_result[f_violations[k].path] })
        /\ \A v \in Range(filtered) :
              v.path \in DOMAIN g_result /\ g_result[v.path] # {}
        /\ (patch_set = ScenarioPatchSet /\ f_violations = ScenarioViolations) =>
              filtered = << ViolationAt(A_py, 10), ViolationAt(A_py, 12) >>

\* Scenario 1 has been filtered.
C7_Witness ==
    /\ f_pc = "done"
    /\ patch_set = ScenarioPatchSet
    /\ f_violations = ScenarioViolations
    /\ Len(filtered) = 2

====
